---- MODULE Spec2Model ----
(***************************************************************************)
(* The keybinding panel of core/src/keymap.rs (LapceKeymap): the capture   *)
(* session kept in active_keymap, the two hit rectangles set by paint, the *)
(* shared key-press data of the tab, and the Widget callbacks event, paint *)
(* and update.                                                             *)
(*                                                                         *)
(* Lengths are in quarter pixels (Q units per pixel) so that the halves    *)
(* and quarters paint takes of the dialog's sizes stay integers.           *)
(* Option<T> is a sequence: <<>> is None and <<x>> is Some(x).             *)
(***************************************************************************)
EXTENDS Integers, Sequences, FiniteSets

VARIABLES
    active_keymap,   \* self.active_keymap : Option<(KeyMap, Vec<KeyPress>)>
    keymap_confirm,  \* self.keymap_confirm : Rect
    keymap_cancel,   \* self.keymap_cancel : Rect
    data,            \* the LapceTabData fields the panel reads: keypress, focus
    commands,        \* the commands submitted through ctx that their target has yet to handle
    call,            \* the Widget callback that ran last, with its argument
    arm,             \* the arm of the handler the last call took
    outcome,         \* what the resolver told the key-press handler in the last call
    pressed,         \* history: the chords recognized in the latest session
    selected         \* history: the template as it was when the running session began

vars == <<active_keymap, keymap_confirm, keymap_cancel, data, commands, call,
          arm, outcome, pressed, selected>>

----------------------------------------------------------------------------
(* Bounds of the model *)

\* at most this many recognized key presses are followed in one session
MaxPresses == 4

----------------------------------------------------------------------------
(* Values *)

None == <<>>
Some(x) == <<x>>

\* quarter pixels per pixel
Q == 4

line_height == 35 * Q
active_width == 450 * Q
active_height == 150 * Q
input_height == 35 * Q
confirm_inflate_w == 50 * Q
confirm_inflate_h == 15 * Q

widget_id == "keymap_widget_id"

Rect(x0, y0, x1, y1) == [x0 |-> x0, y0 |-> y0, x1 |-> x1, y1 |-> y1]

RectZERO == Rect(0, 0, 0, 0)

Point(x, y) == [x |-> x, y |-> y]

\* Rect::contains as mouse_down uses it: the left and top edges are inside
contains(r, pos) ==
    /\ pos.x >= r.x0
    /\ pos.x < r.x1
    /\ pos.y >= r.y0
    /\ pos.y < r.y1

\* Size::new(0.0, 0.0).to_rect().with_origin(center).inflate(w, h)
inflate_at(center, w, h) ==
    Rect(center.x - w, center.y - h, center.x + w, center.y + h)

KeyPress(key, mods) == [key |-> key, mods |-> mods]

KeyMap(command, key, modes, when) ==
    [command |-> command, key |-> key, modes |-> modes, when |-> when]

CtrlK == KeyPress("k", {"Ctrl"})
CtrlC == KeyPress("c", {"Ctrl"})
PlainA == KeyPress("a", {})

\* the key-down events the host delivers: three chords and a bare modifier key
KeyEvents ==
    { [key |-> "k", mods |-> {"Ctrl"}],
      [key |-> "c", mods |-> {"Ctrl"}],
      [key |-> "a", mods |-> {}],
      [key |-> "Control", mods |-> {"Ctrl"}] }

ModifierKeys == {"Shift", "Meta", "Super", "Alt", "Control"}

\* KeyPressData::keypress: a key event normalized to a chord, None for a
\* key that is only a modifier
keypress(key_event) ==
    IF key_event.key \in ModifierKeys
    THEN None
    ELSE Some(KeyPress(key_event.key, key_event.mods))

----------------------------------------------------------------------------
(* The shared key-press data of the tab (data.keypress) *)

KA == KeyMap("cmdA", <<CtrlK>>, <<>>, None)
KB == KeyMap("cmdB", <<CtrlK, CtrlC>>, <<"Normal">>, Some("editorFocus"))

LapceCommandNew(cmd) == [cmd |-> cmd]

\* the binding lists the model draws from: (bound entries, unbound commands)
Tables ==
    { [with |-> <<KA, KB>>, without |-> <<LapceCommandNew("cmdC")>>],
      [with |-> <<KA>>,
       without |-> <<LapceCommandNew("cmdB"), LapceCommandNew("cmdC")>>] }

Patterns == {"", "b"}

\* the commands a filter pattern keeps
Matching(pattern) == IF pattern = "b" THEN {"cmdB"} ELSE {"cmdA", "cmdB", "cmdC"}

IsKept(command, pattern) == command \in Matching(pattern)

KeptKeymaps(list, pattern) == SelectSeq(list, LAMBDA k : IsKept(k.command, pattern))

KeptCommands(list, pattern) == SelectSeq(list, LAMBDA c : IsKept(c.cmd, pattern))

KeyPressData(table, pattern, pending) ==
    [commands_with_keymap |-> table.with,
     commands_without_keymap |-> table.without,
     filter_pattern |-> pattern,
     filtered_commands_with_keymap |-> KeptKeymaps(table.with, pattern),
     filtered_commands_without_keymap |-> KeptCommands(table.without, pattern),
     pending_keypress |-> pending]

TableOf(kp) ==
    [with |-> kp.commands_with_keymap, without |-> kp.commands_without_keymap]

\* the editor state the resolver filters bindings by
current_mode == "Normal"
true_flags == {"editorFocus"}

----------------------------------------------------------------------------
(* The resolver, KeyPressData::key_down (spec section 4.3) *)

NotRun == [kind |-> "NotRun", command |-> ""]
Resolved(command) == [kind |-> "Resolved", command |-> command]
Pending == [kind |-> "Pending", command |-> ""]
Unmatched == [kind |-> "Unmatched", command |-> ""]

\* the mode and when filter of a binding
passes_filter(binding) ==
    /\ \/ binding.modes = <<>>
       \/ \E m \in 1..Len(binding.modes) : binding.modes[m] = current_mode
    /\ \/ binding.when = None
       \/ binding.when[1] \in true_flags

\* the indices of the bindings with exactly this chord sequence, filtered
exact_matches(bindings, chords) ==
    { b \in 1..Len(bindings) : bindings[b].key = chords /\ passes_filter(bindings[b]) }

\* the indices of the longer bindings that start with this chord, filtered
longer_matches(bindings, chord) ==
    { b \in 1..Len(bindings) :
        /\ Len(bindings[b].key) > 1
        /\ bindings[b].key[1] = chord
        /\ passes_filter(bindings[b]) }

MaxOf(S) == CHOOSE x \in S : \A y \in S : y <= x

\* among equals the most recently inserted binding wins: the last of the list
pick(bindings, matches) == Resolved(bindings[MaxOf(matches)].command)

\* one key-down event run through the resolver: the outcome handed to the
\* handler and the resolver's pending chords afterwards
key_down(kp, key_event) ==
    LET chord == keypress(key_event)
        bindings == kp.commands_with_keymap
    IN  IF chord = None
        THEN [outcome |-> Unmatched, keypress |-> kp]
        ELSE IF kp.pending_keypress = <<>>
        THEN IF longer_matches(bindings, chord[1]) /= {}
             THEN [outcome |-> Pending,
                   keypress |-> [kp EXCEPT !.pending_keypress = <<chord[1]>>]]
             ELSE IF exact_matches(bindings, <<chord[1]>>) /= {}
             THEN [outcome |-> pick(bindings, exact_matches(bindings, <<chord[1]>>)),
                   keypress |-> kp]
             ELSE [outcome |-> Unmatched, keypress |-> kp]
        ELSE LET full == Append(kp.pending_keypress, chord[1])
             IN  IF exact_matches(bindings, full) /= {}
                 THEN [outcome |-> pick(bindings, exact_matches(bindings, full)),
                       keypress |-> [kp EXCEPT !.pending_keypress = <<>>]]
                 ELSE [outcome |-> Unmatched,
                       keypress |-> [kp EXCEPT !.pending_keypress = <<>>]]

----------------------------------------------------------------------------
(* LapceKeymap::mouse_down *)

Session(keymap, keys) == [keymap |-> keymap, keys |-> keys]

\* LapceUICommand::UpdateKeymap(keymap.clone(), keys.clone()) for Target::Widget(data.id)
UpdateKeymap(keymap, keys, target) ==
    [command |-> "UpdateKeymap", keymap |-> keymap, keys |-> keys, target |-> target]

\* the result of a handler: the widget's session, the commands it submitted
\* and the arm it took
Handled(session, submitted, took) ==
    [active_keymap |-> session, submitted |-> submitted, arm |-> took]

\* a confirm that sends the template's own chords in place of the recorded ones
on_confirm_template_keys(session, d) ==
    Handled(None, <<UpdateKeymap(session.keymap, session.keymap.key, d.id)>>, "confirm")

\* a confirm that forgets to end the session
on_confirm_keeps_session(session, d) ==
    Handled(Some(session), <<UpdateKeymap(session.keymap, session.keys, d.id)>>, "confirm")

\* a confirm that refuses an empty buffer
on_confirm_rejects_empty(session, d) ==
    IF session.keys = <<>>
    THEN Handled(Some(session), <<>>, "confirm")
    ELSE Handled(None, <<UpdateKeymap(session.keymap, session.keys, d.id)>>, "confirm")

\* a click on the confirm button of an active session
on_confirm(session, d) ==
    Handled(None, <<UpdateKeymap(session.keymap, session.keys, d.id)>>, "confirm")

\* a cancel that saves what was recorded before it ends the session
on_cancel_submits(session, d) ==
    Handled(None, <<UpdateKeymap(session.keymap, session.keys, d.id)>>, "cancel")

\* a click on the cancel button of an active session
on_cancel(session, d) == Handled(None, <<>>, "cancel")

\* a click outside the two buttons that is taken for a confirm
on_other_commits(session, d) ==
    Handled(None, <<UpdateKeymap(session.keymap, session.keys, d.id)>>, "other")

\* a click anywhere else while a session is active
on_other(session, d) == Handled(Some(session), <<>>, "other")

\* a choice of the bound entries that forgets the filter
shown_with_keymap_unfiltered(kp) == kp.commands_with_keymap

\* the lists on show: the filtered ones when a filter pattern is set
shown_with_keymap(kp) ==
    IF kp.filter_pattern = ""
    THEN kp.commands_with_keymap
    ELSE kp.filtered_commands_with_keymap

shown_without_keymap(kp) ==
    IF kp.filter_pattern = ""
    THEN kp.commands_without_keymap
    ELSE kp.filtered_commands_without_keymap

\* (pos.y / self.line_height).floor() as usize: the cast takes a negative to 0
row_index(pos) == IF pos.y < 0 THEN 0 ELSE pos.y \div line_height

\* a selection that fills the buffer with the chords the row is bound to
select_row_prefilled(i, kp) ==
    LET with == shown_with_keymap(kp)
        without == shown_without_keymap(kp)
    IN  IF i < Len(with)
        THEN Some(Session(with[i + 1], with[i + 1].key))
        ELSE LET j == i - Len(with)
             IN  IF j < Len(without)
                 THEN Some(Session(KeyMap(without[j + 1].cmd, <<>>, <<>>, None), <<>>))
                 ELSE None

\* the session a click on row i starts with no session active, None past the rows
select_row(i, kp) ==
    LET with == shown_with_keymap(kp)
        without == shown_without_keymap(kp)
    IN  IF i < Len(with)
        THEN Some(Session(with[i + 1], <<>>))
        ELSE LET j == i - Len(with)
             IN  IF j < Len(without)
                 THEN Some(Session(KeyMap(without[j + 1].cmd, <<>>, <<>>, None), <<>>))
                 ELSE None

\* a mouse_down whose active-session arm does not return after the two
\* buttons, so that a click elsewhere goes on to select a row
mouse_down_falls_through(self_active_keymap, confirm, cancel, pos, d) ==
    IF self_active_keymap /= None /\ contains(confirm, pos)
    THEN on_confirm(self_active_keymap[1], d)
    ELSE IF self_active_keymap /= None /\ contains(cancel, pos)
    THEN on_cancel(self_active_keymap[1], d)
    ELSE IF select_row(row_index(pos), d.keypress) /= None
    THEN Handled(select_row(row_index(pos), d.keypress), <<>>,
                 IF self_active_keymap /= None THEN "other" ELSE "select")
    ELSE Handled(self_active_keymap, <<>>,
                 IF self_active_keymap /= None THEN "other" ELSE "select")

\* LapceKeymap::mouse_down
mouse_down(self_active_keymap, confirm, cancel, pos, d) ==
    IF self_active_keymap /= None
    THEN IF contains(confirm, pos)
         THEN on_confirm(self_active_keymap[1], d)
         ELSE IF contains(cancel, pos)
         THEN on_cancel(self_active_keymap[1], d)
         ELSE on_other(self_active_keymap[1], d)
    ELSE Handled(select_row(row_index(pos), d.keypress), <<>>, "select")

\* LapceKeymap::request_focus
request_focus(d) == [d EXCEPT !.focus = widget_id]

----------------------------------------------------------------------------
(* Event::KeyDown *)

\* a recording that keeps the last two chords, dropping only the oldest
record_chord_rolling(keys, chord) ==
    IF Len(keys) = 2 THEN <<keys[2], chord>> ELSE Append(keys, chord)

\* a recording that never clears the buffer
record_chord_unbounded(keys, chord) == Append(keys, chord)

\* the recording of one chord: a full buffer is cleared before the push
record_chord(keys, chord) ==
    IF Len(keys) = 2 THEN <<chord>> ELSE Append(keys, chord)

\* a capture that clears a full buffer before it looks whether the event is a chord
capture_key_clears_first(session, key_event) ==
    LET chord == keypress(key_event)
        keys == IF Len(session.keys) = 2 THEN <<>> ELSE session.keys
    IN  IF chord /= None
        THEN Session(session.keymap, Append(keys, chord[1]))
        ELSE Session(session.keymap, keys)

\* the key-down event with a session active: recorded when it is a chord
capture_key(session, key_event) ==
    LET chord == keypress(key_event)
    IN  IF chord /= None
        THEN Session(session.keymap, record_chord(session.keys, chord[1]))
        ELSE session

\* a resolution that stores the resolver's copy back into the tab data
resolve_key_writes_back(d, key_event) ==
    LET copy == key_down(d.keypress, key_event)
    IN  [outcome |-> copy.outcome, data |-> [d EXCEPT !.keypress = copy.keypress]]

\* the key-down event with no session: the resolver runs on a copy of
\* data.keypress (the Arc is shared, so make_mut clones) that is then dropped
resolve_key(d, key_event) ==
    LET copy == key_down(d.keypress, key_event)
    IN  [outcome |-> copy.outcome, data |-> d]

\* a KeyDown arm that records the chord and resolves it as well
event_key_down_both(self_active_keymap, d, key_event) ==
    IF self_active_keymap /= None
    THEN [active_keymap |-> Some(capture_key(self_active_keymap[1], key_event)),
          data |-> d,
          outcome |-> resolve_key(d, key_event).outcome,
          arm |-> "capture"]
    ELSE [active_keymap |-> None,
          data |-> resolve_key(d, key_event).data,
          outcome |-> resolve_key(d, key_event).outcome,
          arm |-> "resolve"]

\* the whole KeyDown arm: the session, the tab data and the resolver's outcome after it
event_key_down(self_active_keymap, d, key_event) ==
    IF self_active_keymap /= None
    THEN [active_keymap |-> Some(capture_key(self_active_keymap[1], key_event)),
          data |-> d,
          outcome |-> NotRun,
          arm |-> "capture"]
    ELSE [active_keymap |-> None,
          data |-> resolve_key(d, key_event).data,
          outcome |-> resolve_key(d, key_event).outcome,
          arm |-> "resolve"]

----------------------------------------------------------------------------
(* LapceKeymap::paint: the part that places the two buttons *)

\* active_rect.center() for the painted region
active_center(paint_rect) ==
    LET width == paint_rect.x1 - paint_rect.x0
        height == paint_rect.y1 - paint_rect.y0
        origin == Point(width \div 2 - active_width \div 2,
                        height \div 2 - active_height \div 2 + paint_rect.y0)
    IN  Point(origin.x + active_width \div 2, origin.y + active_height \div 2)

\* how far below the dialog's centre the two buttons sit
button_drop == input_height \div 2 + (active_height \div 2 - input_height \div 2) \div 2

confirm_rect(paint_rect) ==
    LET c == active_center(paint_rect)
    IN  inflate_at(Point(c.x + active_width \div 4, c.y + button_drop),
                   confirm_inflate_w, confirm_inflate_h)

cancel_rect(paint_rect) ==
    LET c == active_center(paint_rect)
    IN  inflate_at(Point(c.x - active_width \div 4, c.y + button_drop),
                   confirm_inflate_w, confirm_inflate_h)

----------------------------------------------------------------------------
(* The inputs of the callbacks *)

\* the regions paint is called with: a view 800 by 70 pixels, unscrolled or
\* scrolled down by one row
Regions ==
    { Rect(0, 0, 800 * Q, 70 * Q),
      Rect(0, 35 * Q, 800 * Q, 105 * Q) }

\* the places of the clicks: the left edge of rows 0, 1 and 2, and the columns
\* of the cancel and the confirm button at the height of row 2, where the
\* unscrolled view has its buttons
Positions ==
    { Point(10 * Q, 10 * Q), Point(10 * Q, 45 * Q), Point(10 * Q, 80 * Q),
      Point(300 * Q, 80 * Q), Point(500 * Q, 80 * Q) }

UICommands == {"Focus", "Other"}

Call(method, type, pos, key_event, command, region) ==
    [method |-> method, type |-> type, pos |-> pos, key_event |-> key_event,
     command |-> command, region |-> region]

CallNew == Call("new", "", Point(0, 0), None, "", RectZERO)
CallCommand(cmd) == Call("event", "Command", Point(0, 0), None, cmd, RectZERO)
CallMouseMove == Call("event", "MouseMove", Point(0, 0), None, "", RectZERO)
CallMouseDown(pos) == Call("event", "MouseDown", pos, None, "", RectZERO)
CallKeyDown(key_event) == Call("event", "KeyDown", Point(0, 0), Some(key_event), "", RectZERO)
CallPaint(region) == Call("paint", "", Point(0, 0), None, "", region)
CallUpdate == Call("update", "", Point(0, 0), None, "", RectZERO)

\* history of a session: how many chords were recognized, the last two of
\* them, and whether an earlier session recognized any
NoPresses(earlier) == [n |-> 0, last2 |-> <<>>, earlier |-> earlier]

\* history: one more recognized chord
Pressed(p, chord) ==
    [p EXCEPT !.n = p.n + 1,
              !.last2 = IF Len(p.last2) = 2
                        THEN <<p.last2[2], chord>>
                        ELSE Append(p.last2, chord)]

----------------------------------------------------------------------------
(* The state after LapceKeymap::new *)

Init ==
    /\ active_keymap = None
    /\ keymap_confirm = RectZERO
    /\ keymap_cancel = RectZERO
    /\ \E table \in Tables, pattern \in Patterns, pending \in {<<>>, <<CtrlK>>} :
           data = [id |-> "tab_id",
                   focus |-> "other_widget_id",
                   keypress |-> KeyPressData(table, pattern, pending)]
    /\ commands = <<>>
    /\ call = CallNew
    /\ arm = ""
    /\ outcome = NotRun
    /\ pressed = NoPresses(FALSE)
    /\ selected = None

----------------------------------------------------------------------------
(* Widget::event *)

\* druid hands a submitted command to its target as soon as the event that
\* submitted it returns, before the widget is called again
NoCommandWaiting == commands = <<>>

\* Event::Command: LapceUICommand::Focus takes the focus, any other does nothing
EventCommand(cmd) ==
    /\ NoCommandWaiting
    /\ call' = CallCommand(cmd)
    /\ data' = IF cmd = "Focus" THEN request_focus(data) ELSE data
    /\ arm' = IF cmd = "Focus" THEN "focus" ELSE ""
    /\ outcome' = NotRun
    /\ UNCHANGED <<active_keymap, keymap_confirm, keymap_cancel, commands, pressed,
                   selected>>

\* Event::MouseMove: only marked handled, wherever the pointer is
EventMouseMove ==
    /\ NoCommandWaiting
    /\ call' = CallMouseMove
    /\ arm' = ""
    /\ outcome' = NotRun
    /\ UNCHANGED <<active_keymap, keymap_confirm, keymap_cancel, data, commands, pressed,
                   selected>>

\* Event::MouseDown: the focus is taken, then mouse_down
EventMouseDown(pos) ==
    LET d == request_focus(data)
        r == mouse_down(active_keymap, keymap_confirm, keymap_cancel, pos, d)
    IN  /\ NoCommandWaiting
        /\ call' = CallMouseDown(pos)
        /\ data' = d
        /\ active_keymap' = r.active_keymap
        /\ commands' = commands \o r.submitted
        /\ arm' = r.arm
        /\ outcome' = NotRun
        /\ pressed' = IF active_keymap = None /\ r.active_keymap /= None
                      THEN NoPresses(pressed.earlier \/ pressed.n > 0)
                      ELSE pressed
        /\ selected' = IF r.active_keymap = None
                       THEN None
                       ELSE IF active_keymap = None
                       THEN Some(r.active_keymap[1].keymap)
                       ELSE selected
        /\ UNCHANGED <<keymap_confirm, keymap_cancel>>

\* Event::KeyDown
EventKeyDown(key_event) ==
    LET r == event_key_down(active_keymap, data, key_event)
        recorded == active_keymap /= None /\ keypress(key_event) /= None
    IN  /\ NoCommandWaiting
        /\ recorded => pressed.n < MaxPresses
        /\ call' = CallKeyDown(key_event)
        /\ active_keymap' = r.active_keymap
        /\ data' = r.data
        /\ arm' = r.arm
        /\ outcome' = r.outcome
        /\ pressed' = IF recorded THEN Pressed(pressed, keypress(key_event)[1]) ELSE pressed
        /\ UNCHANGED <<keymap_confirm, keymap_cancel, commands, selected>>

----------------------------------------------------------------------------
(* Widget::paint and Widget::update *)

\* paint places the two buttons when a session is active
Paint(region) ==
    /\ NoCommandWaiting
    /\ call' = CallPaint(region)
    /\ keymap_confirm' = IF active_keymap /= None THEN confirm_rect(region) ELSE keymap_confirm
    /\ keymap_cancel' = IF active_keymap /= None THEN cancel_rect(region) ELSE keymap_cancel
    /\ arm' = ""
    /\ outcome' = NotRun
    /\ UNCHANGED <<active_keymap, data, commands, pressed, selected>>

\* update after the tab handled the oldest submitted UpdateKeymap: the binding
\* lists are what that handler made of them, any of Tables
UpdateAfterKeymap(table) ==
    /\ commands /= <<>>
    /\ commands' = Tail(commands)
    /\ data' = [data EXCEPT !.keypress =
                   KeyPressData(table, data.keypress.filter_pattern,
                                data.keypress.pending_keypress)]
    /\ call' = CallUpdate
    /\ arm' = ""
    /\ outcome' = NotRun
    /\ UNCHANGED <<active_keymap, keymap_confirm, keymap_cancel, pressed, selected>>

\* update after the filter input changed the pattern
UpdateAfterFilter(pattern) ==
    /\ NoCommandWaiting
    /\ pattern /= data.keypress.filter_pattern
    /\ data' = [data EXCEPT !.keypress =
                   KeyPressData(TableOf(data.keypress), pattern,
                                data.keypress.pending_keypress)]
    /\ call' = CallUpdate
    /\ arm' = ""
    /\ outcome' = NotRun
    /\ UNCHANGED <<active_keymap, keymap_confirm, keymap_cancel, commands, pressed,
                   selected>>

Next ==
    \/ \E cmd \in UICommands : EventCommand(cmd)
    \/ EventMouseMove
    \/ \E pos \in Positions : EventMouseDown(pos)
    \/ \E key_event \in KeyEvents : EventKeyDown(key_event)
    \/ \E region \in Regions : Paint(region)
    \/ \E table \in Tables : UpdateAfterKeymap(table)
    \/ \E pattern \in Patterns : UpdateAfterFilter(pattern)

Spec == Init /\ [][Next]_vars

----------------------------------------------------------------------------
(* The capture session: recording *)

HasSession == active_keymap /= None

Keys == active_keymap[1].keys

Template == active_keymap[1].keymap

\* C1: after n >= 1 recognized key presses in one session the recorded buffer
\* holds the last chord alone when n is odd and the last two chords, in press
\* order, when n is even; three presses leave the third chord alone.
C1_RingBufferOfTwo ==
    (HasSession /\ pressed.n >= 1) =>
        Keys = IF pressed.n % 2 = 1
               THEN <<pressed.last2[Len(pressed.last2)]>>
               ELSE pressed.last2

\* three different chords were pressed and only the third is in the buffer
C1_Witness ==
    /\ HasSession
    /\ pressed.n = 3
    /\ pressed.last2 = <<CtrlC, PlainA>>
    /\ Keys = <<PlainA>>

\* C2: the recorded buffer of the active session never holds more than 2 chords.
C2_AtMostTwoChords == HasSession => Len(Keys) <= 2

\* a full buffer that was already cleared once and filled again
C2_Witness ==
    /\ HasSession
    /\ pressed.n = 4
    /\ Len(Keys) = 2

----------------------------------------------------------------------------
(* The capture session: confirm and cancel *)

\* the step is a mouse-down event
IsMouseDown == call'.method = "event" /\ call'.type = "MouseDown"

\* the step is a mouse-down on the confirm button of an active session
ConfirmClick == HasSession /\ IsMouseDown /\ contains(keymap_confirm, call'.pos)

\* the step is a mouse-down on the cancel button of an active session
CancelClick == HasSession /\ IsMouseDown /\ contains(keymap_cancel, call'.pos)

\* the binding lists of the tab
BindingTable == TableOf(data.keypress)

\* the step starts a session
SessionStarts == ~HasSession /\ active_keymap' /= None

\* the entry of the lists on show that the clicked row stands for, as a template
RowTemplate(pos, kp) ==
    LET i == row_index(pos)
        n == Len(shown_with_keymap(kp))
    IN  IF i < n
        THEN shown_with_keymap(kp)[i + 1]
        ELSE KeyMap(shown_without_keymap(kp)[i - n + 1].cmd, <<>>, <<>>, None)

\* C3: a confirm click submits exactly one UpdateKeymap whose chords are the
\* recorded buffer of that moment and whose command, modes and when are those
\* the template had when the row was selected (the bound entry's, or empty
\* modes and no when for an unbound command); recording alters none of them.
C3_CommitCarriesTemplate ==
    [][ /\ ConfirmClick =>
            /\ Len(commands') = Len(commands) + 1
            /\ LET c == commands'[Len(commands')]
               IN  /\ c.command = "UpdateKeymap"
                   /\ c.keys = Keys
                   /\ c.keymap.command = selected[1].command
                   /\ c.keymap.modes = selected[1].modes
                   /\ c.keymap.when = selected[1].when
        /\ SessionStarts =>
            /\ IsMouseDown
            /\ selected' = Some(RowTemplate(call'.pos, data.keypress))
        /\ (HasSession /\ active_keymap' /= None) =>
            /\ selected' = selected
            /\ active_keymap'[1].keymap.command = selected[1].command
            /\ active_keymap'[1].keymap.modes = selected[1].modes
            /\ active_keymap'[1].keymap.when = selected[1].when ]_vars

\* a bound row with modes and a when was selected, other chords than its own
\* were recorded, and the confirm submitted them with that row's modes and when
C3_Witness ==
    /\ arm = "confirm"
    /\ commands = <<UpdateKeymap(KB, <<PlainA>>, data.id)>>
    /\ ~HasSession

\* C4: a cancel click ends the session, drops what was recorded and submits
\* no UpdateKeymap, so the binding table is as it was.
C4_CancelDiscards ==
    [][ CancelClick =>
            /\ active_keymap' = None
            /\ commands' = commands
            /\ commands' = <<>>
            /\ BindingTable' = BindingTable ]_vars

\* a session with recorded chords was cancelled
C4_Witness ==
    /\ arm = "cancel"
    /\ pressed.n >= 1
    /\ ~HasSession
    /\ commands = <<>>

\* C5: an UpdateKeymap is submitted by a confirm click on an active session
\* and by no other event, and the binding table changes only while such a
\* request is being handled.
C5_OnlyCommitMutates ==
    [][ /\ Len(commands') > Len(commands) => ConfirmClick
        /\ BindingTable' /= BindingTable => (commands /= <<>> /\ commands' = Tail(commands)) ]_vars

\* a mouse-down on the confirm button has just submitted a request
C5_Witness ==
    /\ call.type = "MouseDown"
    /\ contains(keymap_confirm, call.pos)
    /\ Len(commands) = 1
    /\ commands[1].command = "UpdateKeymap"

----------------------------------------------------------------------------
(* The capture session: lifecycle *)

\* C6: a session starts with an empty buffer, for a bound row (whose chords
\* stay in the template) as for an unbound one, whatever earlier sessions
\* recorded: until its first recognized key press the buffer is empty.
C6_StartsEmpty == (HasSession /\ pressed.n = 0) => Keys = <<>>

\* a bound row is selected after an earlier session recorded chords
C6_Witness ==
    /\ arm = "select"
    /\ HasSession
    /\ Template = KA
    /\ pressed.earlier
    /\ Keys = <<>>

\* C7: there is no session at first; a session begins only by a mouse-down
\* that selects a row while none is active; and a confirm or a cancel click
\* ends the session in its own step, a confirm with its request still waiting.
C7_Lifecycle ==
    /\ active_keymap = None
    /\ [][ /\ SessionStarts => (IsMouseDown /\ arm' = "select")
           /\ (HasSession /\ active_keymap' /= None) => active_keymap'[1].keymap = Template
           /\ (ConfirmClick \/ CancelClick) => active_keymap' = None
           /\ ConfirmClick => (active_keymap' = None /\ commands' /= <<>>) ]_vars

\* the session is over while the request the confirm submitted still waits
C7_Witness ==
    /\ arm = "confirm"
    /\ ~HasSession
    /\ commands /= <<>>
    /\ selected = None

\* C8: a confirm click on a session with nothing recorded is not blocked: it
\* submits an UpdateKeymap for the target command with an empty chord list.
C8_EmptyCommit ==
    [][ (ConfirmClick /\ Keys = <<>>) =>
            /\ commands' = <<UpdateKeymap(Template, <<>>, data.id)>>
            /\ commands'[1].keymap.command = selected[1].command
            /\ active_keymap' = None ]_vars

\* a bound command was confirmed with nothing recorded
C8_Witness ==
    /\ arm = "confirm"
    /\ Len(commands) = 1
    /\ commands[1].keys = <<>>
    /\ commands[1].keymap = KA

----------------------------------------------------------------------------
(* Key-down events: capture or resolution *)

\* the step is a key-down event
IsKeyDown == call'.method = "event" /\ call'.type = "KeyDown"

\* C9: with a session active a key-down event is recorded or ignored and the
\* resolver does not run; with no session it goes to the resolver and nothing
\* is recorded.
C9_AlternateConsumer ==
    [][ IsKeyDown =>
            IF HasSession
            THEN /\ outcome' = NotRun
                 /\ active_keymap' /= None
                 /\ active_keymap'[1].keymap = Template
                 /\ IF keypress(call'.key_event[1]) = None
                    THEN active_keymap'[1].keys = Keys
                    ELSE /\ Len(active_keymap'[1].keys) >= 1
                         /\ active_keymap'[1].keys[Len(active_keymap'[1].keys)]
                                = keypress(call'.key_event[1])[1]
                 /\ commands' = commands
            ELSE /\ outcome' /= NotRun
                 /\ active_keymap' = None
                 /\ pressed' = pressed ]_vars

\* Ctrl+K, which is bound, was pressed in a session: recorded, not resolved
C9_Witness ==
    /\ call = CallKeyDown([key |-> "k", mods |-> {"Ctrl"}])
    /\ HasSession
    /\ Keys = <<CtrlK>>
    /\ BindingTable.with = <<KA, KB>>
    /\ data.keypress.pending_keypress = <<>>
    /\ outcome = NotRun

\* C10: with no session and the bindings [Ctrl+K] -> cmdA and
\* [Ctrl+K, Ctrl+C] -> cmdB, Ctrl+K yields Pending and a Ctrl+C that follows
\* it yields Resolved(cmdB).
C10_TwoChordResolution ==
    [][ /\ ( /\ ~HasSession
             /\ BindingTable.with = <<KA, KB>>
             /\ data.keypress.pending_keypress = <<>>
             /\ call' = CallKeyDown([key |-> "k", mods |-> {"Ctrl"}]) )
           => outcome' = Pending
        /\ ( /\ ~HasSession
             /\ BindingTable.with = <<KA, KB>>
             /\ call = CallKeyDown([key |-> "k", mods |-> {"Ctrl"}])
             /\ outcome = Pending
             /\ call' = CallKeyDown([key |-> "c", mods |-> {"Ctrl"}]) )
           => outcome' = Resolved("cmdB") ]_vars


----------------------------------------------------------------------------
(* Key-down events that are no chord *)

\* the step is a key-down event that keypress takes to None
IsNoChordKeyDown == IsKeyDown /\ keypress(call'.key_event[1]) = None

\* C11: a key-down event that is no chord, in an active session, is a no-op:
\* the session and its buffer are as before, a full buffer of 2 chords too.
C11_NoChordIsNoOp ==
    [][ (HasSession /\ IsNoChordKeyDown) =>
            /\ active_keymap' = active_keymap
            /\ Len(active_keymap'[1].keys) = Len(Keys)
            /\ commands' = commands
            /\ data' = data
            /\ outcome' = NotRun ]_vars

\* a bare modifier key was pressed on a full buffer, which is still full
C11_Witness ==
    /\ call = CallKeyDown([key |-> "Control", mods |-> {"Ctrl"}])
    /\ arm = "capture"
    /\ HasSession
    /\ Len(Keys) = 2
    /\ Keys = pressed.last2


----------------------------------------------------------------------------
(* Row selection *)

\* the row a click lands on
ClickedRow == call'.pos.y \div line_height

\* the bound entries and the unbound commands the rows stand for
RowsBound ==
    IF data.keypress.filter_pattern /= ""
    THEN data.keypress.filtered_commands_with_keymap
    ELSE data.keypress.commands_with_keymap

RowsUnbound ==
    IF data.keypress.filter_pattern /= ""
    THEN data.keypress.filtered_commands_without_keymap
    ELSE data.keypress.commands_without_keymap

\* C12: with no session active a click on row i, over the filtered lists when
\* a filter pattern is set and the unfiltered ones otherwise, starts a session
\* on the i-th bound entry when i is below their number, else on the
\* (i - number)-th unbound command with empty key, empty modes and no when,
\* and starts none when that index is past the unbound commands.
C12_RowSelection ==
    [][ (~HasSession /\ IsMouseDown) =>
            IF ClickedRow < Len(RowsBound)
            THEN active_keymap' = Some(Session(RowsBound[ClickedRow + 1], <<>>))
            ELSE IF ClickedRow - Len(RowsBound) < Len(RowsUnbound)
            THEN active_keymap' =
                     Some(Session([command |-> RowsUnbound[ClickedRow - Len(RowsBound) + 1].cmd,
                                   key |-> <<>>, modes |-> <<>>, when |-> None],
                                  <<>>))
            ELSE active_keymap' = None ]_vars

\* under the filter "b" a click on row 0 selected cmdB's binding, the second
\* entry of the unfiltered list
C12_Witness ==
    /\ arm = "select"
    /\ call.type = "MouseDown"
    /\ call.pos.y \div line_height = 0
    /\ data.keypress.filter_pattern = "b"
    /\ data.keypress.commands_with_keymap = <<KA, KB>>
    /\ HasSession
    /\ Template = KB
    /\ Keys = <<>>

\* a click past the last row started no session
C12_WitnessPastEnd ==
    /\ arm = "select"
    /\ call.type = "MouseDown"
    /\ call.pos.y \div line_height >= Len(RowsBound) + Len(RowsUnbound)
    /\ ~HasSession


----------------------------------------------------------------------------
(* Frame effects *)

\* the step is a mouse-down on neither button of an active session
OtherClick ==
    /\ HasSession
    /\ IsMouseDown
    /\ ~contains(keymap_confirm, call'.pos)
    /\ ~contains(keymap_cancel, call'.pos)

\* C13: with a session active a click on neither button leaves the session's
\* template and recorded chords as they are, selects no other row and
\* submits no UpdateKeymap.
C13_OtherClickKeepsSession ==
    [][ OtherClick =>
            /\ active_keymap' = active_keymap
            /\ selected' = selected
            /\ pressed' = pressed
            /\ commands' = commands
            /\ BindingTable' = BindingTable ]_vars

\* with chords recorded, a click landed on the row of another command and
\* the session is still the one of the command selected first
C13_Witness ==
    /\ arm = "other"
    /\ call.type = "MouseDown"
    /\ HasSession
    /\ Keys /= <<>>
    /\ call.pos.y \div line_height < Len(RowsBound)
    /\ RowsBound[call.pos.y \div line_height + 1] /= Template
    /\ commands = <<>>

\* C14: with no session active a key-down event leaves the key-press data of
\* the tab, its binding lists and its pending chords, as it was: the resolver
\* worked on a copy that is gone when the event returns.
C14_ResolverLeavesData ==
    [][ (~HasSession /\ IsKeyDown) =>
            /\ data'.keypress = data.keypress
            /\ data' = data
            /\ outcome' = key_down(data.keypress, call'.key_event[1]).outcome ]_vars

\* the resolver answered Pending, which left a pending chord in its copy, and
\* the tab's data holds none
C14_Witness ==
    /\ arm = "resolve"
    /\ ~HasSession
    /\ outcome = Pending
    /\ key_down(data.keypress, call.key_event[1]).keypress.pending_keypress = <<CtrlK>>
    /\ data.keypress.pending_keypress = <<>>

====
